---- MODULE Spec2Model ----
(***************************************************************************)
(* A model of the video transcription service of src/main.py.              *)
(*                                                                         *)
(* transcribe_endpoint accepts a JSON request and starts one thread        *)
(* running process_transcription(data).  The thread resolves the Drive     *)
(* file id, downloads the video to a scratch file, converts it to audio    *)
(* with ffmpeg, transcribes it (inline, or through an uploaded object and  *)
(* a polled long-running operation when the audio is larger than 10 MB),   *)
(* removes the scratch files and posts the transcript to the webhook.  A   *)
(* single try/except wraps the whole function and posts {"error": ...}.    *)
(*                                                                         *)
(* Every collaborator call (Drive, ffmpeg, Storage, Speech, the webhook)   *)
(* either returns or raises; which one is the environment's choice.        *)
(***************************************************************************)
EXTENDS Integers, Sequences, FiniteSets, TLC

VARIABLES
    pc,          \* per job: the thread's position in process_transcription
    data,        \* per job: the JSON body handed to transcribe_endpoint
    ack,         \* per job: the HTTP answer of transcribe_endpoint
    file_id,     \* per job: the local file_id after resolution
    video,       \* per job: the scratch .mp4 file (temp_video_path)
    audio,       \* per job: the scratch .wav file (temp_audio_path)
    audio_size,  \* per job: os.path.getsize(temp_audio_path)
    strategy,    \* per job: the branch taken at the size test
    blob,        \* per job: the object uploaded to the bucket
    polls,       \* per job: calls of operation.done() that returned False
    sleeps,      \* per job: calls of time.sleep(30)
    opDone,      \* per job: operation.done() has returned True
    response,    \* per job: the recognition response
    transcript,  \* per job: the transcript string built from the response
    err,         \* per job: the exception caught by the outer except
    posts,       \* per job: the requests.post calls made to WEBHOOK_URL
    sink         \* the POSTs the webhook has answered, in order of arrival

vars == << pc, data, ack, file_id, video, audio, audio_size, strategy, blob,
           polls, sleeps, opDone, response, transcript, err, posts, sink >>

---------------------------------------------------------------------------
(* Bounds of the model.                                                    *)

\* The most result entries in one recognition response.
MaxResults == 2

\* The most calls of operation.done() that return False in one job.
MaxPolls == 122

\* The longest chunk of free text around the '/file/d/' marker in a link.
MaxChunk == 2

---------------------------------------------------------------------------
(* Program constants.                                                      *)

\* time.sleep(30)
POLL_INTERVAL == 30

\* operation.result(timeout=3600)
RESULT_TIMEOUT == 3600

\* if audio_size > 10 * 1024 * 1024
SIZE_THRESHOLD == 10 * 1024 * 1024

\* drive_link.split('/file/d/')
MARKER == << "/", "f", "i", "l", "e", "/", "d", "/" >>

\* file_part.split('/')
SLASH == << "/" >>

Jobs == { "j1", "j2" }

---------------------------------------------------------------------------
(* JSON values.  A string is a sequence of one-character strings.  NONE is *)
(* a missing key or null; NONSTR is a truthy value that is not a string    *)
(* (a number, say), on which .split raises AttributeError.                 *)

NONE == << "<None>" >>
NONSTR == << "<int>" >>

IsStr(v) == v # NONE /\ v # NONSTR

\* Python truthiness of a JSON value: None and "" are falsy.
Truthy(v) == v # NONE /\ v # << >>

\* The body of the request: no JSON or an empty object (falsy), a truthy
\* JSON value that is not an object, or an object read through .get().
NODATA == [ kind |-> "nodata", drive_link |-> NONE, file_id |-> NONE ]
NONDICT == [ kind |-> "nondict", drive_link |-> NONE, file_id |-> NONE ]
Dict(link, fid) == [ kind |-> "dict", drive_link |-> link, file_id |-> fid ]

---------------------------------------------------------------------------
(* Lines 43-62: the resolution of the Drive file id.                       *)

\* The first index at which sep occurs in s, or 0.
IndexOf(s, sep) ==
    LET hits == { i \in 1..(Len(s) - Len(sep) + 1) :
                    SubSeq(s, i, i + Len(sep) - 1) = sep }
    IN IF hits = {} THEN 0 ELSE CHOOSE i \in hits : \A k \in hits : i <= k

\* Python's s.split(sep): the parts of s between the occurrences of sep,
\* found left to right without overlap.
RECURSIVE Split(_, _)
Split(s, sep) ==
    LET i == IndexOf(s, sep)
    IN IF i = 0
       THEN << s >>
       ELSE << SubSeq(s, 1, i - 1) >> \o Split(SubSeq(s, i + Len(sep), Len(s)), sep)

\* A variant of ExtractId that reads the last part, parts[-1], not parts[1].
ExtractId_LastPart(drive_link) ==
    LET parts == Split(drive_link, MARKER)
    IN IF Len(parts) > 1 THEN Split(parts[Len(parts)], SLASH)[1] ELSE NONE

\* Lines 49-52: parts = drive_link.split('/file/d/'); with more than one
\* part, file_id = parts[1].split('/')[0]; otherwise nothing is extracted.
ExtractId(drive_link) ==
    LET parts == Split(drive_link, MARKER)
    IN IF Len(parts) > 1 THEN Split(parts[2], SLASH)[1] ELSE NONE

\* Lines 43-62.  outcome "ok": the job goes on with file_id; "return": the
\* function returns at line 55, 58 or 62; "raise": data.get raises (data is
\* not an object), which the outer except catches.
Resolve(d) ==
    IF d.kind = "nondict"
    THEN [ outcome |-> "raise", file_id |-> NONE ]
    ELSE IF Truthy(d.drive_link) /\ ~Truthy(d.file_id)
    THEN IF ~IsStr(d.drive_link)
         THEN [ outcome |-> "return", file_id |-> d.file_id ]
         ELSE LET fid == ExtractId(d.drive_link)
              IN IF fid = NONE
                 THEN [ outcome |-> "return", file_id |-> d.file_id ]
                 ELSE IF Truthy(fid)
                 THEN [ outcome |-> "ok", file_id |-> fid ]
                 ELSE [ outcome |-> "return", file_id |-> fid ]
    ELSE IF Truthy(d.file_id)
    THEN [ outcome |-> "ok", file_id |-> d.file_id ]
    ELSE [ outcome |-> "return", file_id |-> d.file_id ]

---------------------------------------------------------------------------
(* Line 104: the choice of the transcription strategy.                     *)

\* A variant of SelectStrategy with the test audio_size >= 10 * 1024 * 1024.
SelectStrategy_AtLeast(size) == IF size >= SIZE_THRESHOLD THEN "Async" ELSE "Sync"

SelectStrategy(size) == IF size > SIZE_THRESHOLD THEN "Async" ELSE "Sync"

---------------------------------------------------------------------------
(* Lines 138-142: the transcript.  A response is the sequence of its       *)
(* results, a result the sequence of its alternatives' texts.              *)

\* result.alternatives[0] raises IndexError on a result with no alternative.
BuildRaises(resp) == \E i \in 1..Len(resp) : Len(resp[i]) = 0

\* transcript = ""; for each result in order: transcript += alternatives[0].
RECURSIVE Accumulate(_, _, _)
Accumulate(resp, idx, acc) ==
    IF idx > Len(resp) THEN acc ELSE Accumulate(resp, idx + 1, acc \o resp[idx][1])

\* A variant of BuildTranscript that puts a space after every part.
RECURSIVE AccumulateSpaced(_, _, _)
AccumulateSpaced(resp, idx, acc) ==
    IF idx > Len(resp)
    THEN acc
    ELSE AccumulateSpaced(resp, idx + 1, acc \o resp[idx][1] \o " ")

BuildTranscript_Spaced(resp) == AccumulateSpaced(resp, 1, "")

BuildTranscript(resp) == Accumulate(resp, 1, "")

---------------------------------------------------------------------------
(* The inputs the environment may supply.                                  *)

SeqsUpTo(S, n) == UNION { [ 1..k -> S ] : k \in 0..n }

\* Links and ids of the pipeline specification.
LINK_OK == << "h" >> \o MARKER \o << "A", "1", "/", "v" >>
LINK_NOMARK == << "h", "/", "x" >>
LINK_EMPTYID == << "h" >> \o MARKER \o << "/", "v" >>

Links == { NONE, NONSTR, LINK_OK, LINK_NOMARK, LINK_EMPTYID }
FileIds == { NONE, << "B" >> }

Requests == { NODATA, NONDICT } \cup { Dict(l, f) : l \in Links, f \in FileIds }

\* Links and ids of the resolution specification: free text around zero,
\* one or two markers.
Chunks == SeqsUpTo({ "a", "/" }, MaxChunk)
RichLinks ==
    { NONE, NONSTR } \cup Chunks
    \cup { c1 \o MARKER \o c2 : c1 \in Chunks, c2 \in Chunks }
    \cup { c1 \o MARKER \o c2 \o MARKER \o c3 :
             c1 \in Chunks, c2 \in Chunks, c3 \in Chunks }
RichFileIds == { NONE, << >>, << "B" >>, NONSTR }
RichRequests == { Dict(l, f) : l \in RichLinks, f \in RichFileIds }

\* The audio sizes around the threshold.
AudioSizes == { 0, SIZE_THRESHOLD - 1, SIZE_THRESHOLD, SIZE_THRESHOLD + 1 }

\* The alternatives of one result, and the responses.
AltLists == { << >>, << "hello " >>, << "world", "word" >> }
Responses == SeqsUpTo(AltLists, MaxResults)

NoResponse == << << "<none>" >> >>

---------------------------------------------------------------------------
(* The initial state: no request has arrived.                              *)

Init ==
    /\ pc = [ j \in Jobs |-> "idle" ]
    /\ data = [ j \in Jobs |-> NODATA ]
    /\ ack = [ j \in Jobs |-> "none" ]
    /\ file_id = [ j \in Jobs |-> NONE ]
    /\ video = [ j \in Jobs |-> "none" ]
    /\ audio = [ j \in Jobs |-> "none" ]
    /\ audio_size = [ j \in Jobs |-> 0 ]
    /\ strategy = [ j \in Jobs |-> "none" ]
    /\ blob = [ j \in Jobs |-> "none" ]
    /\ polls = [ j \in Jobs |-> 0 ]
    /\ sleeps = [ j \in Jobs |-> 0 ]
    /\ opDone = [ j \in Jobs |-> FALSE ]
    /\ response = [ j \in Jobs |-> NoResponse ]
    /\ transcript = [ j \in Jobs |-> "" ]
    /\ err = [ j \in Jobs |-> "none" ]
    /\ posts = [ j \in Jobs |-> << >> ]
    /\ sink = << >>

\* Control moves to position p of job j.
Goto(j, p) == pc' = [ pc EXCEPT ![j] = p ]

\* A statement of the try block raises: control moves to the except clause
\* of line 157 with the exception bound to e.
Raise(j, e) ==
    /\ pc' = [ pc EXCEPT ![j] = "except" ]
    /\ err' = [ err EXCEPT ![j] = e ]

\* One call of requests.post(WEBHOOK_URL, json=payload).
Post(j, kind, body, delivered) ==
    /\ posts' = [ posts EXCEPT ![j] =
                    Append(@, [ kind |-> kind, body |-> body, delivered |-> delivered ]) ]
    /\ sink' = IF delivered THEN Append(sink, [ job |-> j, kind |-> kind ]) ELSE sink

---------------------------------------------------------------------------
(* Lines 166-175: transcribe_endpoint.                                     *)

\* A variant of Submit that resolves the file id before it answers, and
\* answers 400 when there is none.
Submit_PreResolve(j, reqs) ==
    /\ pc[j] = "idle"
    /\ \E d \in reqs :
         /\ data' = [ data EXCEPT ![j] = d ]
         /\ IF d.kind = "nodata" \/ Resolve(d).outcome # "ok"
            THEN /\ ack' = [ ack EXCEPT ![j] = "bad_request" ]
                 /\ Goto(j, "refused")
            ELSE /\ ack' = [ ack EXCEPT ![j] = "accepted" ]
                 /\ Goto(j, "resolve")
    /\ UNCHANGED << file_id, video, audio, audio_size, strategy, blob, polls,
                    sleeps, opDone, response, transcript, err, posts, sink >>

\* A falsy body is answered 400 and no thread is started; any other body
\* starts the thread and is answered "accepted".
Submit(j, reqs) ==
    /\ pc[j] = "idle"
    /\ \E d \in reqs :
         /\ data' = [ data EXCEPT ![j] = d ]
         /\ IF d.kind = "nodata"
            THEN /\ ack' = [ ack EXCEPT ![j] = "bad_request" ]
                 /\ Goto(j, "refused")
            ELSE /\ ack' = [ ack EXCEPT ![j] = "accepted" ]
                 /\ Goto(j, "resolve")
    /\ UNCHANGED << file_id, video, audio, audio_size, strategy, blob, polls,
                    sleeps, opDone, response, transcript, err, posts, sink >>

---------------------------------------------------------------------------
(* Lines 41-164: process_transcription, one action per statement that      *)
(* calls a collaborator.                                                   *)

\* A variant of ResolveStep in which file_id is a module-level variable: an
\* id left by another job is found set at line 47 and at line 60.
ResolveStep_SharedId(j) ==
    /\ pc[j] = "resolve"
    /\ LET left == { file_id[k] : k \in { k \in Jobs : k # j /\ Truthy(file_id[k]) } }
           r == IF left = {} \/ data[j].kind # "dict" \/ Truthy(data[j].file_id)
                THEN Resolve(data[j])
                ELSE [ outcome |-> "ok", file_id |-> CHOOSE f \in left : TRUE ]
       IN /\ file_id' = [ file_id EXCEPT ![j] = r.file_id ]
          /\ IF r.outcome = "ok"
             THEN Goto(j, "mktemp") /\ UNCHANGED err
             ELSE IF r.outcome = "return"
             THEN Goto(j, "done") /\ UNCHANGED err
             ELSE Raise(j, "resolve")
    /\ UNCHANGED << data, ack, video, audio, audio_size, strategy, blob, polls,
                    sleeps, opDone, response, transcript, posts, sink >>

\* Lines 43-62: the file id is resolved; the function returns without a
\* POST when there is none.
ResolveStep(j) ==
    /\ pc[j] = "resolve"
    /\ LET r == Resolve(data[j])
       IN /\ file_id' = [ file_id EXCEPT ![j] = r.file_id ]
          /\ IF r.outcome = "ok"
             THEN Goto(j, "mktemp") /\ UNCHANGED err
             ELSE IF r.outcome = "return"
             THEN Goto(j, "done") /\ UNCHANGED err
             ELSE Raise(j, "resolve")
    /\ UNCHANGED << data, ack, video, audio, audio_size, strategy, blob, polls,
                    sleeps, opDone, response, transcript, posts, sink >>

\* Lines 65-66: NamedTemporaryFile(delete=False) creates the scratch video.
MkTemp(j) ==
    /\ pc[j] = "mktemp"
    /\ \/ /\ video' = [ video EXCEPT ![j] = "exists" ]
          /\ Goto(j, "download")
          /\ UNCHANGED err
       \/ /\ Raise(j, "mktemp")
          /\ UNCHANGED video
    /\ UNCHANGED << data, ack, file_id, audio, audio_size, strategy, blob, polls,
                    sleeps, opDone, response, transcript, posts, sink >>

\* Lines 67-76: the chunked download into the scratch video; the loop over
\* next_chunk() ends with done, or a chunk raises.
Download(j) ==
    /\ pc[j] = "download"
    /\ \/ Goto(j, "ffmpeg") /\ UNCHANGED err
       \/ Raise(j, "download")
    /\ UNCHANGED << data, ack, file_id, video, audio, audio_size, strategy, blob,
                    polls, sleeps, opDone, response, transcript, posts, sink >>

\* A variant of Ffmpeg without check=True: a failed run is not noticed and
\* the job goes on to measure the audio.
Ffmpeg_NoCheck(j) ==
    /\ pc[j] = "ffmpeg"
    /\ \E left \in { "none", "exists" } : audio' = [ audio EXCEPT ![j] = left ]
    /\ Goto(j, "measure")
    /\ UNCHANGED << data, ack, file_id, video, audio_size, strategy, blob, polls,
                    sleeps, opDone, response, transcript, err, posts, sink >>

\* Lines 79-90: subprocess.run(ffmpeg, check=True).  Exit 0 leaves the audio
\* file; a failed run may or may not have written one.
Ffmpeg(j) ==
    /\ pc[j] = "ffmpeg"
    /\ \/ /\ audio' = [ audio EXCEPT ![j] = "exists" ]
          /\ Goto(j, "measure")
          /\ UNCHANGED err
       \/ /\ \E left \in { "none", "exists" } :
               audio' = [ audio EXCEPT ![j] = left ]
          /\ Raise(j, "ffmpeg")
    /\ UNCHANGED << data, ack, file_id, video, audio_size, strategy, blob, polls,
                    sleeps, opDone, response, transcript, posts, sink >>

\* A variant of Measure that uploads the audio whatever its size, and takes
\* the size test only afterwards.
Measure_UploadAlways(j, sizes) ==
    /\ pc[j] = "measure"
    /\ \E size \in sizes :
         /\ audio_size' = [ audio_size EXCEPT ![j] = size ]
         /\ strategy' = [ strategy EXCEPT ![j] = SelectStrategy(size) ]
         /\ Goto(j, "upload")
    /\ UNCHANGED << data, ack, file_id, video, audio, blob, polls, sleeps, opDone,
                    response, transcript, err, posts, sink >>

\* Lines 93-104: the audio size is read and the branch is chosen.
Measure(j, sizes) ==
    /\ pc[j] = "measure"
    /\ \E size \in sizes :
         /\ audio_size' = [ audio_size EXCEPT ![j] = size ]
         /\ strategy' = [ strategy EXCEPT ![j] = SelectStrategy(size) ]
         /\ Goto(j, IF SelectStrategy(size) = "Async" THEN "upload" ELSE "recognize")
    /\ UNCHANGED << data, ack, file_id, video, audio, blob, polls, sleeps, opDone,
                    response, transcript, err, posts, sink >>

\* Lines 107-112: blob.upload_from_filename.
Upload(j) ==
    /\ pc[j] = "upload"
    /\ \/ /\ blob' = [ blob EXCEPT ![j] = "stored" ]
          /\ Goto(j, "start")
          /\ UNCHANGED err
       \/ /\ Raise(j, "upload")
          /\ UNCHANGED blob
    /\ UNCHANGED << data, ack, file_id, video, audio, audio_size, strategy, polls,
                    sleeps, opDone, response, transcript, posts, sink >>

\* Lines 114-118: speech_client.long_running_recognize.
StartOperation(j) ==
    /\ pc[j] = "start"
    /\ \/ Goto(j, "poll") /\ UNCHANGED err
       \/ Raise(j, "start")
    /\ UNCHANGED << data, ack, file_id, video, audio, audio_size, strategy, blob,
                    polls, sleeps, opDone, response, transcript, posts, sink >>

\* A variant of PollNotDone that polls again at once, without time.sleep.
PollNotDone_NoSleep(j, maxPolls) ==
    /\ pc[j] = "poll"
    /\ polls[j] < maxPolls
    /\ polls' = [ polls EXCEPT ![j] = @ + 1 ]
    /\ UNCHANGED << pc, data, ack, file_id, video, audio, audio_size, strategy,
                    blob, sleeps, opDone, response, transcript, err, posts, sink >>

\* Line 119: operation.done() returns False; the loop body is entered.
PollNotDone(j, maxPolls) ==
    /\ pc[j] = "poll"
    /\ polls[j] < maxPolls
    /\ polls' = [ polls EXCEPT ![j] = @ + 1 ]
    /\ Goto(j, "sleep")
    /\ UNCHANGED << data, ack, file_id, video, audio, audio_size, strategy, blob,
                    sleeps, opDone, response, transcript, err, posts, sink >>

\* Lines 120-122: time.sleep(30), then back to the loop test.
Sleep(j) ==
    /\ pc[j] = "sleep"
    /\ sleeps' = [ sleeps EXCEPT ![j] = @ + 1 ]
    /\ Goto(j, "poll")
    /\ UNCHANGED << data, ack, file_id, video, audio, audio_size, strategy, blob,
                    polls, opDone, response, transcript, err, posts, sink >>

\* Line 119: operation.done() returns True, or raises.
PollDone(j) ==
    /\ pc[j] = "poll"
    /\ \/ /\ opDone' = [ opDone EXCEPT ![j] = TRUE ]
          /\ Goto(j, "result")
          /\ UNCHANGED err
       \/ /\ Raise(j, "poll")
          /\ UNCHANGED opDone
    /\ UNCHANGED << data, ack, file_id, video, audio, audio_size, strategy, blob,
                    polls, sleeps, response, transcript, posts, sink >>

\* Lines 123-124: operation.result(timeout=3600) of the finished operation.
OperationResult(j, resps) ==
    /\ pc[j] = "result"
    /\ \/ /\ \E r \in resps : response' = [ response EXCEPT ![j] = r ]
          /\ Goto(j, "delete")
          /\ UNCHANGED err
       \/ /\ Raise(j, "result")
          /\ UNCHANGED response
    /\ UNCHANGED << data, ack, file_id, video, audio, audio_size, strategy, blob,
                    polls, sleeps, opDone, transcript, posts, sink >>

\* A variant of BlobDelete with the call in its own try/except: a failed
\* delete is logged and the job goes on.
BlobDelete_Swallowed(j) ==
    /\ pc[j] = "delete"
    /\ \E gone \in BOOLEAN :
         blob' = [ blob EXCEPT ![j] = IF gone THEN "deleted" ELSE @ ]
    /\ Goto(j, "build")
    /\ UNCHANGED << data, ack, file_id, video, audio, audio_size, strategy, polls,
                    sleeps, opDone, response, transcript, err, posts, sink >>

\* Line 126: blob.delete().
BlobDelete(j) ==
    /\ pc[j] = "delete"
    /\ \/ /\ blob' = [ blob EXCEPT ![j] = "deleted" ]
          /\ Goto(j, "build")
          /\ UNCHANGED err
       \/ /\ Raise(j, "delete")
          /\ UNCHANGED blob
    /\ UNCHANGED << data, ack, file_id, video, audio, audio_size, strategy, polls,
                    sleeps, opDone, response, transcript, posts, sink >>

\* Lines 130-134: the audio is read and speech_client.recognize is called.
Recognize(j, resps) ==
    /\ pc[j] = "recognize"
    /\ \/ /\ \E r \in resps : response' = [ response EXCEPT ![j] = r ]
          /\ Goto(j, "build")
          /\ UNCHANGED err
       \/ /\ Raise(j, "recognize")
          /\ UNCHANGED response
    /\ UNCHANGED << data, ack, file_id, video, audio, audio_size, strategy, blob,
                    polls, sleeps, opDone, transcript, posts, sink >>

\* Lines 136-144: the transcript is built from the response.
Build(j) ==
    /\ pc[j] = "build"
    /\ IF BuildRaises(response[j])
       THEN /\ Raise(j, "build")
            /\ UNCHANGED transcript
       ELSE /\ transcript' = [ transcript EXCEPT ![j] = BuildTranscript(response[j]) ]
            /\ Goto(j, "cleanup")
            /\ UNCHANGED err
    /\ UNCHANGED << data, ack, file_id, video, audio, audio_size, strategy, blob,
                    polls, sleeps, opDone, response, posts, sink >>

\* A variant of Cleanup that removes the video and forgets the audio.
Cleanup_VideoOnly(j) ==
    /\ pc[j] = "cleanup"
    /\ video' = [ video EXCEPT ![j] = IF @ = "exists" THEN "removed" ELSE @ ]
    /\ Goto(j, "post")
    /\ UNCHANGED << data, ack, file_id, audio, audio_size, strategy, blob, polls,
                    sleeps, opDone, response, transcript, err, posts, sink >>

\* A variant of Cleanup that empties the scratch directory: the files of
\* every job are removed, not only those at this job's two paths.
Cleanup_AllScratch(j) ==
    /\ pc[j] = "cleanup"
    /\ video' = [ k \in Jobs |-> IF video[k] = "exists" THEN "removed" ELSE video[k] ]
    /\ audio' = [ k \in Jobs |-> IF audio[k] = "exists" THEN "removed" ELSE audio[k] ]
    /\ Goto(j, "post")
    /\ UNCHANGED << data, ack, file_id, audio_size, strategy, blob, polls, sleeps,
                    opDone, response, transcript, err, posts, sink >>

\* Lines 146-150: both scratch files are removed when they exist.
Cleanup(j) ==
    /\ pc[j] = "cleanup"
    /\ video' = [ video EXCEPT ![j] = IF @ = "exists" THEN "removed" ELSE @ ]
    /\ audio' = [ audio EXCEPT ![j] = IF @ = "exists" THEN "removed" ELSE @ ]
    /\ Goto(j, "post")
    /\ UNCHANGED << data, ack, file_id, audio_size, strategy, blob, polls, sleeps,
                    opDone, response, transcript, err, posts, sink >>

\* Lines 152-155: the transcript is posted.  The call sits inside the try
\* block: when it raises, the except clause runs.
PostTranscript(j) ==
    /\ pc[j] = "post"
    /\ \/ /\ Post(j, "transcript", transcript[j], TRUE)
          /\ Goto(j, "done")
          /\ UNCHANGED err
       \/ /\ Post(j, "transcript", transcript[j], FALSE)
          /\ Raise(j, "post")
    /\ UNCHANGED << data, ack, file_id, video, audio, audio_size, strategy, blob,
                    polls, sleeps, opDone, response, transcript >>

\* A variant of PostError whose except clause only logs the exception.
PostError_LogOnly(j) ==
    /\ pc[j] = "except"
    /\ Goto(j, "done")
    /\ UNCHANGED << data, ack, file_id, video, audio, audio_size, strategy, blob,
                    polls, sleeps, opDone, response, transcript, err, posts, sink >>

\* Lines 157-164: the except clause posts {"error": str(e)}; a failure of
\* that POST is logged and the function returns.
PostError(j) ==
    /\ pc[j] = "except"
    /\ \E delivered \in BOOLEAN : Post(j, "error", err[j], delivered)
    /\ Goto(j, "done")
    /\ UNCHANGED << data, ack, file_id, video, audio, audio_size, strategy, blob,
                    polls, sleeps, opDone, response, transcript, err >>

\* One step of the thread of job j.
Thread(j) ==
    \/ ResolveStep(j)
    \/ MkTemp(j)
    \/ Download(j)
    \/ Ffmpeg(j)
    \/ Measure(j, AudioSizes)
    \/ Upload(j)
    \/ StartOperation(j)
    \/ PollNotDone(j, MaxPolls)
    \/ Sleep(j)
    \/ PollDone(j)
    \/ OperationResult(j, Responses)
    \/ BlobDelete(j)
    \/ Recognize(j, Responses)
    \/ Build(j)
    \/ Cleanup(j)
    \/ PostTranscript(j)
    \/ PostError(j)

---------------------------------------------------------------------------
(* The pipeline specification: one request, every collaborator outcome.    *)

Next == Submit("j1", Requests) \/ Thread("j1")

Spec == Init /\ [][Next]_vars

(* The resolution specification: a request with free-text links, up to the *)
(* end of lines 43-62.                                                     *)

NextResolve == Submit("j1", RichRequests) \/ ResolveStep("j1")

SpecResolve == Init /\ [][NextResolve]_vars

(* The concurrent specification: every job of Jobs gets a request, and the *)
(* threads started at line 173 run interleaved, on few inputs.             *)

\* The most False polls of one job of the concurrent specification.
MaxConcPolls == 1

ConcRequests ==
    { NODATA, Dict(LINK_OK, NONE), Dict(NONE, << "B" >>), Dict(LINK_NOMARK, NONE) }
ConcSizes == { SIZE_THRESHOLD, SIZE_THRESHOLD + 1 }
ConcResponses == { << << "hello " >> >>, << << "world", "word" >> >>, << << >> >> }

ConcThread(j) ==
    \/ ResolveStep(j)
    \/ MkTemp(j)
    \/ Download(j)
    \/ Ffmpeg(j)
    \/ Measure(j, ConcSizes)
    \/ Upload(j)
    \/ StartOperation(j)
    \/ PollNotDone(j, MaxConcPolls)
    \/ Sleep(j)
    \/ PollDone(j)
    \/ OperationResult(j, ConcResponses)
    \/ BlobDelete(j)
    \/ Recognize(j, ConcResponses)
    \/ Build(j)
    \/ Cleanup(j)
    \/ PostTranscript(j)
    \/ PostError(j)

NextConc == \E j \in Jobs : Submit(j, ConcRequests) \/ ConcThread(j)

SpecConc == Init /\ [][NextConc]_vars

---------------------------------------------------------------------------
(* Properties.                                                             *)

\* The job's thread has returned from process_transcription.
Finished(j) == pc[j] = "done"

\* The indices of the POSTs of job j that carry a payload of the kind.
PostsOf(j, kind) == { i \in 1..Len(posts[j]) : posts[j][i].kind = kind }

\* C1: every accepted job makes exactly one POST to the webhook on every
\* exit path: never a second POST, and a finished job is never without one.
C1_ExactlyOnePost ==
    \A j \in Jobs :
        /\ Len(posts[j]) <= 1
        /\ (ack[j] = "accepted" /\ Finished(j)) => Len(posts[j]) = 1

\* C2: an accepted request with neither drive_link nor file_id ends with an
\* {error} POST, and creates no scratch file on the way.
C2_MissingIdNotified ==
    \A j \in Jobs :
        (data[j].kind = "dict"
           /\ data[j].drive_link = NONE /\ data[j].file_id = NONE)
        => /\ video[j] = "none" /\ audio[j] = "none"
           /\ Finished(j) => PostsOf(j, "error") # {}

\* C3: when a job has terminated, neither scratch file of it is left.
C3_NoScratchLeft ==
    \A j \in Jobs :
        Finished(j) => video[j] # "exists" /\ audio[j] # "exists"

\* The errors raised by the stages of the pipeline.
StageErrors == { "download", "ffmpeg", "recognize", "upload", "start", "poll", "result" }

\* C4: once a stage (download, ffmpeg, recognize, upload, start of the
\* operation, poll, result) has raised, no {transcript} is ever posted, and
\* the job finishes with exactly one POST, the {error} payload of that error.
C4_StageErrorReported ==
    \A j \in Jobs :
        err[j] \in StageErrors
        => /\ PostsOf(j, "transcript") = {}
           /\ Len(posts[j]) <= 1
           /\ pc[j] \in { "except", "done" }
           /\ Finished(j) => /\ Len(posts[j]) = 1
                             /\ posts[j][1].kind = "error"
                             /\ posts[j][1].body = err[j]

\* C4's case: a job that ended after the poll of its operation raised.
C4_Witness ==
    \E j \in Jobs :
        /\ Finished(j) /\ err[j] = "poll" /\ sleeps[j] = 1
        /\ posts[j] = << [ kind |-> "error", body |-> "poll", delivered |-> TRUE ] >>

\* C5: the poll loop gives up once the wait budget of one hour is spent: no
\* further wait is started after more than RESULT_TIMEOUT seconds of waits.
C5_PollWithinBudget ==
    \A j \in Jobs :
        pc[j] = "sleep" => POLL_INTERVAL * sleeps[j] <= RESULT_TIMEOUT

\* C6: a job that uploaded its audio has deleted the object when it ends.
C6_BlobDeletedAtEnd ==
    \A j \in Jobs :
        (Finished(j) /\ blob[j] # "none") => blob[j] = "deleted"

\* C7: there is one sleep per poll that returned False (the one in progress
\* while the thread sleeps excepted), and the result is fetched only after a
\* poll returned True.
C7_SleepPerFalsePoll ==
    \A j \in Jobs :
        /\ pc[j] = "sleep" => polls[j] = sleeps[j] + 1
        /\ pc[j] # "sleep" => polls[j] = sleeps[j]
        /\ pc[j] \in { "result", "delete" } => opDone[j]
        /\ (strategy[j] = "Async" /\ response[j] # NoResponse) => opDone[j]

\* C7's case: three polls returned False, the fourth True, the result is in.
C7_Witness ==
    \E j \in Jobs :
        /\ pc[j] = "delete" /\ opDone[j]
        /\ polls[j] = 3 /\ sleeps[j] = 3
        /\ response[j] # NoResponse

\* The positions of the inline branch and of the upload-and-poll branch.
SyncPositions == { "recognize" }
AsyncPositions == { "upload", "start", "poll", "sleep", "result", "delete" }

\* C8: up to 10*1024*1024 bytes, that size included, the inline branch is
\* taken; above it the upload-and-poll branch.
C8_StrategyBySize ==
    \A j \in Jobs :
        /\ strategy[j] = "Sync" => audio_size[j] <= 10 * 1024 * 1024
        /\ strategy[j] = "Async" => audio_size[j] > 10 * 1024 * 1024
        /\ pc[j] \in SyncPositions => strategy[j] = "Sync"
        /\ pc[j] \in AsyncPositions => strategy[j] = "Async"
        /\ blob[j] # "none" => strategy[j] = "Async"

\* C8's case: audio of exactly 10*1024*1024 bytes is about to be recognized
\* inline.
C8_Witness ==
    \E j \in Jobs :
        /\ pc[j] = "recognize"
        /\ audio_size[j] = 10 * 1024 * 1024
        /\ blob[j] = "none"

\* Lines 43-62 have run for job j.
Resolved(j) == pc[j] \notin { "idle", "refused", "resolve" }

\* The marker starts at index p of s.
MarkerAt(s, p) == p + 7 <= Len(s) /\ SubSeq(s, p, p + 7) = MARKER

\* C9: a non-empty file_id is used as it is, with or without a drive_link;
\* without one, a link whose first '/file/d/' is followed by ID and a '/'
\* resolves to ID, and the job goes on when ID is not empty.
C9_ResolvedId ==
    \A j \in Jobs :
        (Resolved(j) /\ data[j].kind = "dict")
        => /\ Truthy(data[j].file_id)
              => pc[j] = "mktemp" /\ file_id[j] = data[j].file_id
           /\ (~Truthy(data[j].file_id) /\ IsStr(data[j].drive_link))
              => LET s == data[j].drive_link
                 IN \A p \in 1..Len(s) : \A q \in 1..Len(s) :
                      ( /\ MarkerAt(s, p)
                        /\ \A k \in 1..(p - 1) : ~MarkerAt(s, k)
                        /\ q >= p + 8
                        /\ s[q] = "/"
                        /\ \A k \in (p + 8)..(q - 1) : s[k] # "/" )
                      => /\ file_id[j] = SubSeq(s, p + 8, q - 1)
                         /\ q > p + 8 => pc[j] = "mktemp"

\* C9's case: a link with two markers and no file_id, resolved to the text
\* between the first marker and the next '/'.
C9_Witness ==
    \E j \in Jobs :
        /\ pc[j] = "mktemp"
        /\ data[j].file_id = NONE
        /\ data[j].drive_link
             = << "a" >> \o MARKER \o << "a", "/" >> \o MARKER \o << "/", "a" >>
        /\ file_id[j] = << "a" >>

\* The texts of the first alternatives of the results, joined from the right.
RECURSIVE JoinTop(_)
JoinTop(resp) ==
    IF resp = << >> THEN "" ELSE Head(resp)[1] \o JoinTop(Tail(resp))

\* The total length of the first alternatives' texts.
RECURSIVE TopLength(_)
TopLength(resp) ==
    IF resp = << >> THEN 0 ELSE Len(Head(resp)[1]) + TopLength(Tail(resp))

\* C10: a posted transcript is the first alternatives' texts of all results
\* of the response, in order and with nothing between them (the empty
\* string for a response without results), whichever branch produced it.
C10_TranscriptIsConcatenation ==
    \A j \in Jobs : \A i \in PostsOf(j, "transcript") :
        /\ posts[j][i].body = JoinTop(response[j])
        /\ Len(posts[j][i].body) = TopLength(response[j])
        /\ response[j] = << >> => posts[j][i].body = ""

\* C10's case: two results from the long-running operation, posted joined.
C10_Witness ==
    \E j \in Jobs :
        /\ Finished(j) /\ strategy[j] = "Async"
        /\ response[j] = << << "hello " >>, << "world", "word" >> >>
        /\ posts[j] = << [ kind |-> "transcript", body |-> "hello world",
                           delivered |-> TRUE ] >>

\* C11 as stated: every request, whatever its body, is answered "accepted".
C11_AlwaysAccepted ==
    \A j \in Jobs : pc[j] # "idle" => ack[j] = "accepted"

\* C11: a request with a non-empty body is answered "accepted" when its
\* thread is started, before the thread's first statement, and the answer
\* stays that whatever the thread does; an empty body is answered 400 and
\* starts no thread.
C11_AcceptedAtOnce ==
    \A j \in Jobs :
        /\ (pc[j] # "idle" /\ data[j].kind # "nodata") => ack[j] = "accepted"
        /\ (pc[j] # "idle" /\ data[j].kind = "nodata")
           => ack[j] = "bad_request" /\ pc[j] = "refused" /\ posts[j] = << >>
        /\ pc[j] = "idle" => ack[j] = "none"

\* C11's case: one job has delivered its transcript, the other has returned
\* without any POST, and both were answered "accepted".
C11_Witness ==
    /\ ack["j1"] = "accepted" /\ ack["j2"] = "accepted"
    /\ Finished("j1") /\ Finished("j2")
    /\ PostsOf("j1", "transcript") # {} /\ posts["j1"][1].delivered
    /\ posts["j2"] = << >>

\* C12: a POST that raised is the job's last one: no payload of any kind is
\* posted after it, whether it carried a {transcript} or an {error}.
C12_NoPostAfterFailedPost ==
    \A j \in Jobs : \A i \in 1..Len(posts[j]) :
        ~posts[j][i].delivered => i = Len(posts[j])

\* How lines 43-62 ended for job j, read from what the job did next.
ResolutionOutcome(j) ==
    IF err[j] = "resolve" THEN "raise"
    ELSE IF Finished(j) /\ err[j] = "none" /\ video[j] = "none" THEN "return"
    ELSE "ok"

\* C13: two jobs with the same request resolve to the same id or are both
\* dropped, and two jobs with the same audio size take the same branch, in
\* every interleaving; and whatever the other job has done, each request
\* resolves to its own id (the id of its link, its file_id, or none) and
\* each size to its own branch.
C13_Deterministic ==
    /\ \A j \in Jobs : \A k \in Jobs :
         /\ (Resolved(j) /\ Resolved(k) /\ data[j] = data[k])
            => /\ file_id[j] = file_id[k]
               /\ ResolutionOutcome(j) = ResolutionOutcome(k)
         /\ (strategy[j] # "none" /\ strategy[k] # "none"
               /\ audio_size[j] = audio_size[k])
            => strategy[j] = strategy[k]
    /\ \A j \in Jobs :
         /\ (pc[j] \notin { "idle", "refused", "resolve" })
            => /\ data[j] = Dict(LINK_OK, NONE)
                  => file_id[j] = << "A", "1" >> /\ ResolutionOutcome(j) = "ok"
               /\ data[j] = Dict(NONE, << "B" >>)
                  => file_id[j] = << "B" >> /\ ResolutionOutcome(j) = "ok"
               /\ data[j] = Dict(LINK_NOMARK, NONE)
                  => file_id[j] = NONE /\ ResolutionOutcome(j) = "return"
         /\ strategy[j] # "none"
            => strategy[j] = (IF audio_size[j] = 10 * 1024 * 1024 + 1
                              THEN "Async" ELSE "Sync")

\* C13's case: a job with the same link and the same audio size as a job
\* that has already ended gets the same id and the same branch.
C13_Witness ==
    /\ data["j1"] = Dict(LINK_OK, NONE) /\ data["j2"] = data["j1"]
    /\ Finished("j1") /\ pc["j2"] = "upload"
    /\ file_id["j1"] = << "A", "1" >> /\ file_id["j2"] = << "A", "1" >>
    /\ audio_size["j1"] = audio_size["j2"]
    /\ strategy["j1"] = "Async" /\ strategy["j2"] = "Async"

\* The moves of a thread from one stage to the next, in the order of the
\* function body.
StageOrder ==
    { << "resolve", "mktemp" >>, << "mktemp", "download" >>,
      << "download", "ffmpeg" >>, << "ffmpeg", "measure" >>,
      << "measure", "upload" >>, << "measure", "recognize" >>,
      << "upload", "start" >>, << "start", "poll" >>, << "poll", "sleep" >>,
      << "sleep", "poll" >>, << "poll", "result" >>, << "result", "delete" >>,
      << "delete", "build" >>, << "recognize", "build" >>,
      << "build", "cleanup" >>, << "cleanup", "post" >>, << "post", "done" >> }

\* The stages a raise can leave for the except clause.
RaisingStages ==
    { "resolve", "mktemp", "download", "ffmpeg", "upload", "start", "poll",
      "result", "delete", "recognize", "build", "post" }

\* The other moves: the request arrives, the thread returns early, a stage
\* raises, the except clause ends.
StageExits ==
    { << "idle", "resolve" >>, << "idle", "refused" >>, << "resolve", "done" >>,
      << "except", "done" >> }
    \cup { << p, "except" >> : p \in RaisingStages }

\* What a job has produced tells which stages have completed.
StagesInOrder(j) ==
    /\ video[j] # "none" => Truthy(file_id[j])
    /\ audio[j] # "none" => video[j] # "none" /\ pc[j] \notin { "mktemp", "download" }
    /\ strategy[j] # "none" => audio[j] # "none" /\ err[j] # "ffmpeg"
    /\ blob[j] # "none" => strategy[j] = "Async"
    /\ response[j] # NoResponse => strategy[j] # "none"
    /\ PostsOf(j, "transcript") # {}
       => response[j] # NoResponse /\ err[j] \in { "none", "post" }
    /\ err[j] # "none" => pc[j] \in { "except", "done" }

\* C14: a thread moves from each stage only to the next one in the order
\* download, ffmpeg, size and branch, recognition (or upload, start, poll,
\* result, delete), transcript, cleanup, POST, or out to the except clause;
\* what exists at any time was made by completed earlier stages, and after a
\* raise no further stage runs.
C14_StagesSequential ==
    /\ [](\A j \in Jobs : StagesInOrder(j))
    /\ [][\A j \in Jobs :
            pc'[j] # pc[j] => << pc[j], pc'[j] >> \in StageOrder \cup StageExits]_vars

\* C14's case: a job went through every stage of the upload-and-poll branch
\* and its transcript POST returned.
C14_Witness ==
    \E j \in Jobs :
        /\ Finished(j) /\ err[j] = "none" /\ strategy[j] = "Async"
        /\ sleeps[j] = 1 /\ blob[j] = "deleted"
        /\ video[j] = "removed" /\ audio[j] = "removed"
        /\ PostsOf(j, "transcript") = { 1 } /\ posts[j][1].delivered

\* C15: a request with a drive_link that holds no '/file/d/' and with no
\* file_id ends with an {error} POST, before any scratch file is created.
C15_NoMarkerNotified ==
    \A j \in Jobs :
        (data[j].kind = "dict" /\ ~Truthy(data[j].file_id)
           /\ IsStr(data[j].drive_link) /\ Truthy(data[j].drive_link)
           /\ \A p \in 1..Len(data[j].drive_link) : ~MarkerAt(data[j].drive_link, p))
        => /\ video[j] = "none" /\ audio[j] = "none" /\ strategy[j] = "none"
           /\ Finished(j) => PostsOf(j, "error") # {}

\* C16: when blob.delete() raises after the operation's result came in, the
\* job still posts its {transcript} and no {error}.
C16_DeleteFailureNotEscalated ==
    \A j \in Jobs :
        (Finished(j) /\ err[j] = "delete")
        => PostsOf(j, "transcript") # {} /\ PostsOf(j, "error") = {}

\* Everything that belongs to job j: its request, its thread's position and
\* locals, its scratch files, its object in the bucket, its POSTs.
JobState(j) ==
    << pc[j], data[j], ack[j], file_id[j], video[j], audio[j], audio_size[j],
       strategy[j], blob[j], polls[j], sleeps[j], opDone[j], response[j],
       transcript[j], err[j], posts[j] >>

\* The payloads of job j that the webhook answered, in order.
RECURSIVE DeliveredKinds(_)
DeliveredKinds(ps) ==
    IF ps = << >> THEN << >>
    ELSE (IF Head(ps).delivered THEN << Head(ps).kind >> ELSE << >>)
         \o DeliveredKinds(Tail(ps))

\* The entries of the webhook's log that came from job j, in order.
RECURSIVE SinkKinds(_, _)
SinkKinds(log, j) ==
    IF log = << >> THEN << >>
    ELSE (IF Head(log).job = j THEN << Head(log).kind >> ELSE << >>)
         \o SinkKinds(Tail(log), j)

\* C17: with two jobs running at once, a step of one thread leaves all that
\* belongs to the other job as it was (its scratch files and its object
\* included); what a job posts is made of its own response and its own
\* error, and the webhook receives from each job what that job posted,
\* whatever the interleaving.
C17_JobsIndependent ==
    /\ [][\A j \in Jobs : \A k \in Jobs :
            (j # k /\ JobState(j)' # JobState(j)) => JobState(k)' = JobState(k)]_vars
    /\ [](\A j \in Jobs :
            /\ \A i \in PostsOf(j, "transcript") :
                 posts[j][i].body = JoinTop(response[j])
            /\ \A i \in PostsOf(j, "error") : posts[j][i].body = err[j]
            /\ SinkKinds(sink, j) = DeliveredKinds(posts[j]))

\* C17's case: both jobs were accepted, and the webhook received the
\* transcript of j2 before the error of j1.
C17_Witness ==
    /\ ack["j1"] = "accepted" /\ ack["j2"] = "accepted"
    /\ Finished("j1") /\ Finished("j2")
    /\ sink = << [ job |-> "j2", kind |-> "transcript" ],
                 [ job |-> "j1", kind |-> "error" ] >>

\* C18: a {transcript} is a job's first POST and is posted only when the id
\* was resolved, both scratch files were made and removed, a response came
\* in whose every result has an alternative, the object of the
\* upload-and-poll branch was deleted, and nothing had raised; when that
\* POST returned, it is the job's only POST.
C18_TranscriptOnlyAfterSuccess ==
    \A j \in Jobs :
        PostsOf(j, "transcript") # {}
        => /\ PostsOf(j, "transcript") = { 1 }
           /\ Truthy(file_id[j])
           /\ video[j] = "removed" /\ audio[j] = "removed"
           /\ strategy[j] \in { "Sync", "Async" }
           /\ response[j] # NoResponse
           /\ \A i \in 1..Len(response[j]) : Len(response[j][i]) > 0
           /\ strategy[j] = "Async" => blob[j] = "deleted" /\ opDone[j]
           /\ err[j] \in { "none", "post" }
           /\ posts[j][1].delivered
              => Len(posts[j]) = 1 /\ err[j] = "none" /\ Finished(j)

\* C18's case: the transcript POST of an upload-and-poll job returned.
C18_Witness ==
    \E j \in Jobs :
        /\ Finished(j) /\ strategy[j] = "Async" /\ blob[j] = "deleted"
        /\ polls[j] = 2
        /\ Len(posts[j]) = 1 /\ posts[j][1].kind = "transcript"
        /\ posts[j][1].delivered

\* C19: a job of the inline branch never uploads, starts an operation,
\* polls or deletes; a job of the upload-and-poll branch never calls
\* recognize; and blob.delete() is called only on the object the job has
\* uploaded.
C19_BranchesExclusive ==
    \A j \in Jobs :
        /\ strategy[j] = "Sync"
           => /\ blob[j] = "none" /\ ~opDone[j] /\ polls[j] = 0 /\ sleeps[j] = 0
              /\ pc[j] \notin AsyncPositions
              /\ err[j] \notin { "upload", "start", "poll", "result", "delete" }
        /\ strategy[j] = "Async"
           => /\ pc[j] # "recognize" /\ err[j] # "recognize"
              /\ response[j] # NoResponse => opDone[j] /\ blob[j] # "none"
        /\ strategy[j] = "none" => blob[j] = "none" /\ response[j] = NoResponse
        /\ (pc[j] = "delete" \/ err[j] = "delete") => blob[j] = "stored"
        /\ blob[j] = "deleted" => strategy[j] = "Async" /\ opDone[j]

\* C19's case: an inline job has delivered its transcript and the bucket and
\* the operation were never touched.
C19_Witness ==
    \E j \in Jobs :
        /\ Finished(j) /\ strategy[j] = "Sync"
        /\ audio_size[j] = 10 * 1024 * 1024 - 1
        /\ response[j] = << << "hello " >> >>
        /\ blob[j] = "none" /\ polls[j] = 0
        /\ Len(posts[j]) = 1 /\ posts[j][1].kind = "transcript"

\* C20: the step that posts a {transcript} starts with both scratch files
\* of the job already removed.
C20_CleanupBeforePost ==
    [][\A j \in Jobs :
         PostsOf(j, "transcript")' # PostsOf(j, "transcript")
         => video[j] = "removed" /\ audio[j] = "removed"]_vars

\* C20's case: a transcript has been posted and both scratch files are gone.
C20_Witness ==
    \E j \in Jobs :
        /\ PostsOf(j, "transcript") = { 1 }
        /\ video[j] = "removed" /\ audio[j] = "removed"
        /\ strategy[j] = "Sync"

====
